---- MODULE Spec2Model ----
(***************************************************************************)
(* A model of the stress-ng orchestrator (src/stress-ng.c, main and its    *)
(* workers) and of the wait stressor's Parent/Runner/Killer triad          *)
(* (src/stress-wait.c).                                                    *)
(***************************************************************************)
EXTENDS Integers, Sequences, FiniteSets, TLC

(* ----------------------------------------------------------------------- *)
(* Program constants                                                       *)
(* ----------------------------------------------------------------------- *)
STRESS_IOSYNC == 0
STRESS_CPU == 1
STRESS_VM == 2
STRESS_HDD == 3
STRESS_MAX == 4
EXIT_SUCCESS == 0
EXIT_FAILURE == 1
\* #define DEFAULT_TIMEOUT (60 * 60 * 24)
DEFAULT_TIMEOUT == 60 * 60 * 24
\* #define DEFAULT_BACKOFF (0)
DEFAULT_BACKOFF == 0
\* #define ABORT_TIMEOUT (8.0)
ABORT_TIMEOUT == 8

(* ----------------------------------------------------------------------- *)
(* Bounds of the model                                                     *)
(* ----------------------------------------------------------------------- *)
\* largest worker count requested for one category (check_value allows 1024)
MaxProcs == 2
\* largest total worker count over all categories
MaxTotal == 3
\* largest total operation budget of a category (0 = unbounded)
MaxOps == 2
\* cap on a counter slot's value, for workers with an unbounded budget
MaxCount == 2
\* largest worker count and budget of the budget division taken alone
DivMaxProcs == 5
DivMaxOps == 12
\* largest max_ops of the wait stressor (0 = unbounded)
MaxWaitOps == 2
\* cap on the wait stressor's counter, for an unbounded max_ops
MaxWaitCount == 3
\* worker counts, backoff and elapsed time of the launch phase taken alone
LaunchMaxProcs == 5
LaunchMaxTotal == 5
MaxBackoff == 2
MaxClock == 2
\* workers of the runs whose SIGCHLD disposition varies
ReapMaxTotal == 2

Cats == 0 .. (STRESS_MAX - 1)

RECURSIVE SumTo(_, _)
SumTo(f, n) == IF n < 0 THEN 0 ELSE f[n] + SumTo(f, n - 1)

RECURSIVE MaxTo(_, _)
MaxTo(f, n) == IF n < 0 THEN 0
               ELSE LET m == MaxTo(f, n - 1) IN IF m < f[n] THEN f[n] ELSE m

(* ----------------------------------------------------------------------- *)
(* State of the orchestrator, main() of stress-ng.c                        *)
(* ----------------------------------------------------------------------- *)
VARIABLES
    pc,             \* position of main()
    num_procs,      \* requested workers per category
    budget,         \* the total budgets as given on the command line
    opt_ops,        \* opt_iosync_ops, opt_cpu_ops, opt_vm_ops, opt_hdd_ops
    dry_run,        \* opt_flags & OPT_FLAGS_DRY_RUN
    max,            \* largest num_procs[i]
    total_procs,    \* sum of num_procs[i]
    n_procs,        \* launch round, then number of children not yet reaped
    li,             \* the inner launch loop's i
    started_procs,  \* workers started per category
    procs,          \* procs[i][j]: pid and whether finish was recorded
    shm,            \* the shared region: "none", "open", "sized", "mapped"
    counters,       \* the mapped region: slot -> value (<<>> until mapped)
    child,          \* the forked workers, indexed by pid
    exit_code,      \* the orchestrator's exit code, -1 while it runs
    failed,         \* which fatal step ended the run ("none" otherwise)
    interrupted,    \* a blocked wait() of the reap loop returned -1
    reaped,         \* number of children wait() has returned
    signalled,      \* some worker was terminated by SIGALRM
    wfailed,        \* some worker exited with EXIT_FAILURE
    opt_backoff,    \* opt_backoff, in units of time
    sigchld_ign,    \* main() was started with SIGCHLD set to SIG_IGN
    opt_timeout,    \* opt_timeout, in seconds
    clock           \* time_now() - time_start, in the same units

cfgVars == <<num_procs, budget, dry_run, sigchld_ign, opt_timeout>>
sizeVars == <<max, total_procs>>
loopVars == <<n_procs, li, started_procs, procs>>
exitVars == <<exit_code, failed>>
ghostVars == <<interrupted, reaped, signalled, wfailed>>

\* stress_null(), the generic worker loop, run on its own
VARIABLES
    npc,            \* position of stress_null()
    n_do_run,       \* the worker's stop flag opt_do_run
    n_max_ops,      \* args->max_ops
    n_counter,      \* *args->counter
    n_res,          \* what the last write() returned, and errno after it
    n_ret,          \* the value stress_null() returned, -1 until it returns
    n_run0,         \* the stop flag when the loop was entered
    n_writes,       \* write() calls made so far
    n_retried,      \* some write() failed with EAGAIN or EINTR
    n_opened,       \* open("/dev/null") returned a descriptor
    n_closes        \* close(fd) calls made so far

nullVars == <<npc, n_do_run, n_max_ops, n_counter, n_res, n_ret, n_run0,
              n_writes, n_retried, n_opened, n_closes>>

fdVars == <<n_opened, n_closes>>

launchVars == <<opt_backoff, clock>>

mainVarsNoNull == <<pc, cfgVars, opt_ops, sizeVars, loopVars, shm, counters,
                    child, exitVars, ghostVars, launchVars>>

\* the orchestrator's variables, and those of stress_null(), which no step
\* of the wait stressor touches
mainVars == <<mainVarsNoNull, nullVars>>

(* ----------------------------------------------------------------------- *)
(* State of the wait stressor, stress_wait() of stress-wait.c, and of the  *)
(* two processes it spawns                                                 *)
(* ----------------------------------------------------------------------- *)
VARIABLES
    ppc,            \* position of stress_wait() in the Parent
    p_blocked,      \* the Parent sleeps inside waitpid()/waitid()
    ret,            \* stress_wait's ret, -1 until it is set
    wait_res,       \* how the Parent's last wait call returned
    rpc,            \* position of runner(), or its process state
    r_stopped,      \* the Runner is stopped by SIGSTOP
    r_cont,         \* the Runner was continued: a continuation event exists
    r_sigpend,      \* a caught signal waits for the stopped Runner
    r_killed,       \* SIGKILL is pending on the Runner
    kpc,            \* position of killer(), or its process state
    k_killed,       \* SIGKILL is pending on the Killer
    since_start,    \* time_now() - start of killer(), in seconds
    last_counter,   \* killer()'s last_counter
    opt_do_run,     \* each process's copy of the stop flag
    max_ops,        \* args->max_ops
    counter,        \* *args->counter, in shared memory
    have_waitid,    \* the build compiles the waitid() block
    frozen,         \* seconds since the counter last advanced
    stalled,        \* killer() left its loop by the stall-abort break
    inc_after       \* how the wait before the last inc_counter() returned

parentVars == <<ppc, p_blocked, ret, wait_res>>
runnerVars == <<rpc, r_stopped, r_cont, r_sigpend, r_killed>>
killerVars == <<kpc, k_killed, since_start, last_counter>>
sharedVars == <<opt_do_run, max_ops, counter, have_waitid>>
waitGhostVars == <<frozen, stalled, inc_after>>

waitVars == <<parentVars, runnerVars, killerVars, sharedVars, waitGhostVars>>

\* what no step of the orchestrator changes
fixedVars == <<cfgVars, waitVars, launchVars, nullVars>>

vars == <<mainVars, waitVars>>

(* ----------------------------------------------------------------------- *)
(* Pure helpers                                                            *)
(* ----------------------------------------------------------------------- *)
\* a division that rounds up instead of down
DIV_OPS_ROUND_UP(opt, nproc) ==
    IF nproc = 0 THEN 0 ELSE (opt + nproc - 1) \div nproc

\* #define DIV_OPS_BY_PROCS(opt, nproc) opt = (nproc == 0) ? 0 : opt / nproc;
DIV_OPS_BY_PROCS(opt, nproc) == IF nproc = 0 THEN 0 ELSE opt \div nproc

\* counters + (j * max) + i
SlotOf(j, i) == (j * max) + i

\* len / sizeof(uint64_t)
RegionSlots == STRESS_MAX * max

NoProc == [pid |-> 0, start |-> 0, finish |-> FALSE]

Pids == 1 .. MaxTotal

Running(p) == p \in DOMAIN child /\ child[p].state = "running"

\* the loop condition of a stressor: !opt_ops || *counter < opt_ops
KeepGoing(i, count) == opt_ops[i] = 0 \/ count < opt_ops[i]

(* ----------------------------------------------------------------------- *)
(* Initial state: after option parsing                                     *)
(* ----------------------------------------------------------------------- *)
Configs == {f \in [Cats -> 0 .. MaxProcs] : SumTo(f, STRESS_MAX - 1) <= MaxTotal}

\* budgets: any budget for a category with workers, none for one without
Budgets(np) ==
    {f \in [Cats -> 0 .. MaxOps] : \A i \in Cats : np[i] = 0 => f[i] = 0}

InitRest ==
    /\ pc = "div"
    /\ opt_ops = budget
    /\ dry_run \in BOOLEAN
    /\ max = 0
    /\ total_procs = 0
    /\ n_procs = 0
    /\ li = 0
    /\ started_procs = [i \in Cats |-> 0]
    /\ procs = [i \in Cats |-> <<>>]
    /\ shm = "none"
    /\ counters = <<>>
    /\ child = <<>>
    /\ exit_code = -1
    /\ failed = "none"
    /\ interrupted = FALSE
    /\ reaped = 0
    /\ signalled = FALSE
    /\ wfailed = FALSE
    /\ clock = 0

Procs == {"parent", "runner", "killer"}

\* stress_wait() is entered: nothing is spawned, the counter is 0
WaitRest ==
    /\ ppc = "spawn_r"
    /\ p_blocked = FALSE
    /\ ret = EXIT_SUCCESS
    /\ wait_res = "none"
    /\ rpc = "none"
    /\ r_stopped = FALSE
    /\ r_cont = FALSE
    /\ r_sigpend = FALSE
    /\ r_killed = FALSE
    /\ kpc = "none"
    /\ k_killed = FALSE
    /\ since_start = 0
    /\ last_counter = 0
    /\ opt_do_run = [p \in Procs |-> TRUE]
    /\ counter = 0
    /\ frozen = 0
    /\ stalled = FALSE
    /\ inc_after = "none"

\* the orchestrator taken alone: the wait stressor is not part of the run
WaitIdle ==
    /\ max_ops = 0
    /\ have_waitid = TRUE
    /\ WaitRest

\* stress_null() is not part of the run
NoRes == [ret |-> 0, errno |-> "none"]

NullRest ==
    /\ n_counter = 0
    /\ n_res = NoRes
    /\ n_ret = -1
    /\ n_writes = 0
    /\ n_retried = FALSE
    /\ n_opened = FALSE
    /\ n_closes = 0

NullIdle ==
    /\ npc = "none"
    /\ n_do_run = TRUE
    /\ n_max_ops = 0
    /\ n_run0 = TRUE
    /\ NullRest

Init ==
    /\ num_procs \in Configs
    /\ budget \in Budgets(num_procs)
    /\ opt_backoff = DEFAULT_BACKOFF
    /\ sigchld_ign = FALSE
    /\ opt_timeout = DEFAULT_TIMEOUT
    /\ InitRest
    /\ WaitIdle
    /\ NullIdle

(* ----------------------------------------------------------------------- *)
(* main(): set-up                                                          *)
(* ----------------------------------------------------------------------- *)
\* exit(EXIT_FAILURE) of a fatal set-up step
Fatal(step) ==
    /\ pc' = "exited"
    /\ exit_code' = EXIT_FAILURE
    /\ failed' = step

DivOps ==
    /\ pc = "div"
    /\ opt_ops' = [i \in Cats |-> DIV_OPS_BY_PROCS(opt_ops[i], num_procs[i])]
    /\ pc' = "alloc"
    /\ UNCHANGED <<fixedVars, sizeVars, loopVars, shm, counters, child,
                   exitVars, ghostVars>>

\* the loop over the categories: max, calloc of procs[i], total_procs
AllocProcs ==
    /\ pc = "alloc"
    /\ max' = MaxTo(num_procs, STRESS_MAX - 1)
    /\ total_procs' = SumTo(num_procs, STRESS_MAX - 1)
    /\ procs' = [i \in Cats |-> [j \in 0 .. (num_procs[i] - 1) |-> NoProc]]
    /\ pc' = "validate"
    /\ UNCHANGED <<fixedVars, opt_ops, n_procs, li, started_procs, shm,
                   counters, child, exitVars, ghostVars>>

\* calloc returned NULL
AllocProcsFail ==
    /\ pc = "alloc"
    /\ Fatal("calloc")
    /\ UNCHANGED <<fixedVars, opt_ops, sizeVars, loopVars, shm, counters, child,
                   ghostVars>>

\* if (total_procs == 0) exit(EXIT_FAILURE)
Validate ==
    /\ pc = "validate"
    /\ IF total_procs = 0
          THEN Fatal("no_workers")
          ELSE /\ pc' = "shm_open"
               /\ UNCHANGED exitVars
    /\ UNCHANGED <<fixedVars, opt_ops, sizeVars, loopVars, shm, counters, child,
                   ghostVars>>

ShmOpen ==
    /\ pc = "shm_open"
    /\ shm' = "open"
    /\ pc' = "ftruncate"
    /\ UNCHANGED <<fixedVars, opt_ops, sizeVars, loopVars, counters, child,
                   exitVars, ghostVars>>

ShmOpenFail ==
    /\ pc = "shm_open"
    /\ Fatal("shm_open")
    /\ UNCHANGED <<fixedVars, opt_ops, sizeVars, loopVars, shm, counters, child,
                   ghostVars>>

Ftruncate ==
    /\ pc = "ftruncate"
    /\ shm' = "sized"
    /\ pc' = "mmap"
    /\ UNCHANGED <<fixedVars, opt_ops, sizeVars, loopVars, counters, child,
                   exitVars, ghostVars>>

\* a complaint that goes on to mmap instead of exiting
FtruncateFailIgnored ==
    /\ pc = "ftruncate"
    /\ failed' = "ftruncate"
    /\ pc' = "mmap"
    /\ UNCHANGED <<fixedVars, opt_ops, sizeVars, loopVars, shm, counters, child,
                   exit_code, ghostVars>>

FtruncateFail ==
    /\ pc = "ftruncate"
    /\ Fatal("ftruncate")
    /\ UNCHANGED <<fixedVars, opt_ops, sizeVars, loopVars, shm, counters, child,
                   ghostVars>>

\* launch loops that start all workers of a category before the next one
LaunchPosByCategory(n, i, total, started) ==
    LET short == {c \in Cats : started[c] < num_procs[c]}
    IN IF n >= total \/ short = {} THEN <<total, 0>>
       ELSE <<n, CHOOSE c \in short : \A d \in short : c <= d>>

\* the launch loops' position from (n, i) on: the next iteration that has a
\* worker to start, or n = total_procs when the outer loop ends
RECURSIVE LaunchPos(_, _, _, _)
LaunchPos(n, i, total, started) ==
    IF n >= total THEN <<n, 0>>
    ELSE IF i >= STRESS_MAX THEN LaunchPos(n + 1, 0, total, started)
    ELSE IF started[i] < num_procs[i] THEN <<n, i>>
    ELSE LaunchPos(n, i + 1, total, started)

\* mmap, close, memset(counters, 0, len); time_start; the launch loops begin
Mmap ==
    /\ pc = "mmap"
    /\ shm' = "mapped"
    /\ counters' = [s \in 0 .. (RegionSlots - 1) |-> 0]
    /\ n_procs' = LaunchPos(0, 0, total_procs, started_procs)[1]
    /\ li' = LaunchPos(0, 0, total_procs, started_procs)[2]
    /\ pc' = "launch"
    /\ UNCHANGED <<fixedVars, opt_ops, sizeVars, started_procs, procs, child,
                   exitVars, ghostVars>>

MmapFail ==
    /\ pc = "mmap"
    /\ Fatal("mmap")
    /\ UNCHANGED <<fixedVars, opt_ops, sizeVars, loopVars, shm, counters, child,
                   ghostVars>>

(* ----------------------------------------------------------------------- *)
(* main(): launching the workers                                           *)
(* ----------------------------------------------------------------------- *)
\* send_alarm(): kill(pid, SIGALRM) for every started worker; the signal is
\* pending on a worker that still runs and lost on one that has terminated
send_alarm(ch) ==
    LET targets == UNION {{procs[i][j].pid :
                             j \in {k \in DOMAIN procs[i] : k < started_procs[i]}} :
                          i \in Cats}
    IN [p \in DOMAIN ch |->
           IF p \in targets /\ ch[p].state = "running"
              THEN [ch[p] EXCEPT !.alarmed = TRUE]
              ELSE ch[p]]

\* the child side of fork(): alarm(opt_timeout), usleep(backoff), then the
\* stressor on its slot unless this is a dry run, then exit(0)
\* a child that runs its stressor whether or not the run is a dry run
NewChildNoDryRun(i, j) ==
    [state |-> "running",
     func |-> i,
     j |-> j,
     seq |-> Len(child),
     delay |-> opt_backoff * n_procs,
     slot |-> SlotOf(j, i),
     wpc |-> "run",
     alarmed |-> FALSE]

\* seq is the number of workers forked before this one; delay is the
\* argument of the child's usleep(opt_backoff * n_procs)
NewChild(i, j) ==
    [state |-> "running",
     func |-> i,
     j |-> j,
     seq |-> Len(child),
     delay |-> opt_backoff * n_procs,
     slot |-> SlotOf(j, i),
     wpc |-> IF dry_run THEN "exit" ELSE "run",
     alarmed |-> FALSE]

\* fork() returned the child's pid: the slot of procs is filled; the loops
\* go on to the next iteration that has a worker to start
LaunchFork ==
    /\ pc = "launch"
    /\ n_procs < total_procs
    /\ LET j == started_procs[li]
           pid == Len(child) + 1
       IN /\ child' = Append(child, NewChild(li, j))
          /\ procs' = [procs EXCEPT ![li][j] =
                          [pid |-> pid,
                           start |-> clock + (opt_backoff * n_procs),
                           finish |-> FALSE]]
          /\ started_procs' = [started_procs EXCEPT ![li] = j + 1]
    /\ n_procs' = LaunchPos(n_procs, li + 1, total_procs, started_procs')[1]
    /\ li' = LaunchPos(n_procs, li + 1, total_procs, started_procs')[2]
    /\ UNCHANGED <<pc, fixedVars, opt_ops, sizeVars, shm, counters, exitVars,
                   ghostVars>>

\* fork() returned -1: send_alarm(), goto out
LaunchForkFail ==
    /\ pc = "launch"
    /\ n_procs < total_procs
    /\ child' = send_alarm(child)
    /\ failed' = "fork"
    /\ pc' = "out"
    /\ UNCHANGED <<fixedVars, opt_ops, sizeVars, loopVars, shm, counters,
                   exit_code, ghostVars>>

\* the outer loop ends with n_procs = total_procs
LaunchDone ==
    /\ pc = "launch"
    /\ n_procs >= total_procs
    /\ pc' = "reap"
    /\ UNCHANGED <<fixedVars, opt_ops, sizeVars, loopVars, shm, counters, child,
                   exitVars, ghostVars>>

(* ----------------------------------------------------------------------- *)
(* main(): the reap loop, the report and the exit                          *)
(* ----------------------------------------------------------------------- *)
\* proc_finished(): record the finish time in the slot whose pid matches
proc_finished(pid) ==
    [i \in Cats |->
        [j \in DOMAIN procs[i] |->
            IF j < started_procs[i] /\ procs[i][j].pid = pid
               THEN [procs[i][j] EXCEPT !.finish = TRUE]
               ELSE procs[i][j]]]

\* a reap loop that signals the remaining workers once a worker has failed
WaitChildAlarmsOnFailure(p) ==
    /\ pc = "reap"
    /\ n_procs > 0
    /\ p \in DOMAIN child
    /\ child[p].state = "zombie"
    /\ ~sigchld_ign
    /\ child' = IF wfailed
                   THEN send_alarm([child EXCEPT ![p].state = "reaped"])
                   ELSE [child EXCEPT ![p].state = "reaped"]
    /\ procs' = proc_finished(p)
    /\ n_procs' = n_procs - 1
    /\ reaped' = reaped + 1
    /\ UNCHANGED <<pc, fixedVars, opt_ops, sizeVars, li, started_procs, shm,
                   counters, exitVars, interrupted, signalled, wfailed>>

\* wait(&status) returned the pid of a terminated child
WaitChild(p) ==
    /\ pc = "reap"
    /\ n_procs > 0
    /\ p \in DOMAIN child
    /\ child[p].state = "zombie"
    /\ ~sigchld_ign
    /\ child' = [child EXCEPT ![p].state = "reaped"]
    /\ procs' = proc_finished(p)
    /\ n_procs' = n_procs - 1
    /\ reaped' = reaped + 1
    /\ UNCHANGED <<pc, fixedVars, opt_ops, sizeVars, li, started_procs, shm,
                   counters, exitVars, interrupted, signalled, wfailed>>

\* a wait() failure that is counted like a reaped child
WaitInterruptedCounted ==
    /\ pc = "reap"
    /\ n_procs > 0
    /\ \A p \in DOMAIN child : child[p].state # "zombie"
    /\ child' = send_alarm(child)
    /\ interrupted' = TRUE
    /\ n_procs' = n_procs - 1
    /\ UNCHANGED <<pc, fixedVars, opt_ops, sizeVars, li, started_procs, procs,
                   shm, counters, exitVars, reaped, signalled, wfailed>>

\* a wait() failure that signals nobody
WaitInterruptedNoAlarm ==
    /\ pc = "reap"
    /\ n_procs > 0
    /\ \A p \in DOMAIN child : child[p].state # "zombie"
    /\ interrupted' = TRUE
    /\ UNCHANGED <<pc, fixedVars, opt_ops, sizeVars, loopVars, shm, counters,
                   child, exitVars, reaped, signalled, wfailed>>

\* the blocked wait() returned -1 (SIGINT ran handle_sigint, which does
\* nothing): send_alarm(), "Break", and the loop goes on
WaitInterrupted ==
    /\ pc = "reap"
    /\ n_procs > 0
    /\ \A p \in DOMAIN child : child[p].state # "zombie"
    /\ \E p \in DOMAIN child : child[p].state = "running"
    /\ child' = send_alarm(child)
    /\ interrupted' = TRUE
    /\ UNCHANGED <<pc, fixedVars, opt_ops, sizeVars, loopVars, shm, counters,
                   exitVars, reaped, signalled, wfailed>>

\* while (n_procs) ends; time_finish, duration, "successful run completed"
ReapDone ==
    /\ pc = "reap"
    /\ n_procs = 0
    /\ pc' = "report"
    /\ UNCHANGED <<fixedVars, opt_ops, sizeVars, loopVars, shm, counters, child,
                   exitVars, ghostVars>>

\* the metrics loop: total += *(counters + (j * max) + i) for j < started
RECURSIVE MetricsSum(_, _)
MetricsSum(i, j) ==
    IF j < 0 THEN 0 ELSE counters[SlotOf(j, i)] + MetricsSum(i, j - 1)

MetricsTotal(i) == MetricsSum(i, started_procs[i] - 1)

Report ==
    /\ pc = "report"
    /\ pc' = "out"
    /\ UNCHANGED <<fixedVars, opt_ops, sizeVars, loopVars, shm, counters, child,
                   exitVars, ghostVars>>

\* out: shm_unlink(shm_name); exit(EXIT_SUCCESS)
Out ==
    /\ pc = "out"
    /\ pc' = "exited"
    /\ exit_code' = EXIT_SUCCESS
    /\ UNCHANGED <<fixedVars, opt_ops, sizeVars, loopVars, shm, counters, child,
                   failed, ghostVars>>

(* ----------------------------------------------------------------------- *)
(* The workers: stress_iosync, stress_cpu, stress_vm, stress_io            *)
(* ----------------------------------------------------------------------- *)
WorkerVars == <<pc, fixedVars, opt_ops, sizeVars, loopVars, shm, exitVars,
                interrupted, reaped>>

\* a terminated worker waits to be reaped, unless SIGCHLD is ignored: then
\* the kernel discards it at once
Terminated(w) ==
    [w EXCEPT !.state = IF sigchld_ign THEN "reaped" ELSE "zombie",
              !.wpc = "done",
              !.alarmed = FALSE]

\* one iteration of a stressor's do-while loop: the unit of work,
\* (*counter)++ and the loop condition; when the loop ends, exit(0)
WorkerStep(p) ==
    /\ Running(p)
    /\ child[p].wpc = "run"
    /\ counters[child[p].slot] < MaxCount
    /\ counters' = [counters EXCEPT ![child[p].slot] = @ + 1]
    /\ child' = [child EXCEPT
                   ![p] = IF KeepGoing(@.func, counters'[@.slot])
                             THEN @ ELSE Terminated(@)]
    /\ UNCHANGED <<WorkerVars, signalled, wfailed>>

\* a dry run: the child runs no stressor, exit(0)
WorkerExit(p) ==
    /\ Running(p)
    /\ child[p].wpc = "exit"
    /\ child' = [child EXCEPT ![p] = Terminated(@)]
    /\ UNCHANGED <<WorkerVars, counters, signalled, wfailed>>

\* exit(EXIT_FAILURE) of stress_vm (memory error) and stress_io (malloc,
\* mkstemp, write)
WorkerFail(p) ==
    /\ Running(p)
    /\ child[p].func \in {STRESS_VM, STRESS_HDD}
    /\ child[p].wpc = "run"
    /\ child' = [child EXCEPT ![p] = Terminated(@)]
    /\ wfailed' = TRUE
    /\ UNCHANGED <<WorkerVars, counters, signalled>>

\* the SIGALRM of send_alarm() is delivered: the default action terminates
WorkerAlarmed(p) ==
    /\ Running(p)
    /\ child[p].alarmed
    /\ child' = [child EXCEPT ![p] = Terminated(@)]
    /\ signalled' = TRUE
    /\ UNCHANGED <<WorkerVars, counters, wfailed>>

\* alarm(opt_timeout) arms the timer unless its argument is 0; every
\* opt_timeout of the model is below 2^32, so that its conversion to
\* unsigned int leaves it as it is
AlarmArmed == opt_timeout # 0

\* the worker's own alarm(opt_timeout) expires: SIGALRM terminates it
WorkerTimeout(p) ==
    /\ Running(p)
    /\ AlarmArmed
    /\ child' = [child EXCEPT ![p] = Terminated(@)]
    /\ signalled' = TRUE
    /\ UNCHANGED <<WorkerVars, counters, wfailed>>

MainNext ==
    \/ DivOps \/ AllocProcs \/ AllocProcsFail \/ Validate
    \/ ShmOpen \/ ShmOpenFail \/ Ftruncate \/ FtruncateFail
    \/ Mmap \/ MmapFail
    \/ LaunchFork \/ LaunchForkFail \/ LaunchDone
    \/ (\E p \in Pids : WaitChild(p))
    \/ WaitInterrupted \/ ReapDone \/ Report \/ Out

WorkerNext ==
    \E p \in Pids :
        \/ WorkerStep(p) \/ WorkerExit(p)
        \/ WorkerFail(p) \/ WorkerAlarmed(p) \/ WorkerTimeout(p)

Next == MainNext \/ WorkerNext

Spec == Init /\ [][Next]_vars

\* what the scheduler guarantees of the reap loop: a pending SIGALRM is
\* delivered, wait() returns a terminated child, and main() runs on
Fairness ==
    /\ WF_vars(ReapDone)
    /\ WF_vars(Report)
    /\ WF_vars(Out)
    /\ \A p \in Pids : WF_vars(WaitChild(p))
    /\ \A p \in Pids : WF_vars(WorkerAlarmed(p))

FairSpec == Init /\ [][Next]_vars /\ Fairness

\* The run with the SIGCHLD disposition it inherited: when SIGCHLD is
\* ignored, wait() blocks until every child has terminated and then fails
\* with ECHILD: pid == -1, send_alarm(), "Break", and the loop goes on
WaitNoChild ==
    /\ pc = "reap"
    /\ n_procs > 0
    /\ sigchld_ign
    /\ \A p \in DOMAIN child : child[p].state = "reaped"
    /\ child' = send_alarm(child)
    /\ interrupted' = TRUE
    /\ UNCHANGED <<pc, fixedVars, opt_ops, sizeVars, loopVars, shm, counters,
                   exitVars, reaped, signalled, wfailed>>

ReapConfigs ==
    {f \in [Cats -> 0 .. MaxProcs] : SumTo(f, STRESS_MAX - 1) <= ReapMaxTotal}

InitReap ==
    /\ num_procs \in ReapConfigs
    /\ budget \in Budgets(num_procs)
    /\ opt_backoff = DEFAULT_BACKOFF
    /\ sigchld_ign \in BOOLEAN
    /\ opt_timeout = DEFAULT_TIMEOUT
    /\ InitRest
    /\ WaitIdle
    /\ NullIdle

NextReap == Next \/ WaitNoChild

SpecReap == InitReap /\ [][NextReap]_vars

\* the scheduler as above; and every worker's alarm(opt_timeout) expires
FairnessReap ==
    /\ Fairness
    /\ WF_vars(WaitNoChild)
    /\ \A p \in Pids : WF_vars(WorkerTimeout(p))

FairSpecReap == InitReap /\ [][NextReap]_vars /\ FairnessReap

\* The run with any timeout that -t accepts
Timeouts == {0, 1, DEFAULT_TIMEOUT}

InitTimeout ==
    /\ num_procs \in ReapConfigs
    /\ budget \in Budgets(num_procs)
    /\ opt_backoff = DEFAULT_BACKOFF
    /\ sigchld_ign = FALSE
    /\ opt_timeout \in Timeouts
    /\ InitRest
    /\ WaitIdle
    /\ NullIdle

\* the steps main() takes by itself up to the reap loop
MainProgress ==
    \/ DivOps \/ AllocProcs \/ Validate \/ ShmOpen \/ Ftruncate \/ Mmap
    \/ LaunchFork \/ LaunchDone

\* the scheduler as above; main() runs on; and every worker's
\* alarm(opt_timeout) expires
FairnessTimeout ==
    /\ Fairness
    /\ WF_vars(MainProgress)
    /\ \A p \in Pids : WF_vars(WorkerTimeout(p))

FairSpecTimeout == InitTimeout /\ [][Next]_vars /\ FairnessTimeout

\* the budget division taken alone: one category with any worker count and
\* any budget
InitDiv ==
    /\ \E c \in Cats, w \in 0 .. DivMaxProcs, b \in 0 .. DivMaxOps :
          /\ num_procs = [i \in Cats |-> IF i = c THEN w ELSE 0]
          /\ budget = [i \in Cats |-> IF i = c THEN b ELSE 0]
    /\ opt_backoff = DEFAULT_BACKOFF
    /\ sigchld_ign = FALSE
    /\ opt_timeout = DEFAULT_TIMEOUT
    /\ InitRest
    /\ WaitIdle
    /\ NullIdle

SpecDiv == InitDiv /\ [][DivOps]_vars

\* the launch phase taken alone, with more workers, a backoff and a clock:
\* time passes between two forks
LaunchTick ==
    /\ pc = "launch"
    /\ clock < MaxClock
    /\ clock' = clock + 1
    /\ UNCHANGED <<pc, cfgVars, opt_ops, sizeVars, loopVars, shm, counters,
                   child, exitVars, ghostVars, opt_backoff, waitVars,
                   nullVars>>

LaunchConfigs ==
    {np \in [Cats -> 0 .. LaunchMaxProcs] :
        SumTo(np, STRESS_MAX - 1) <= LaunchMaxTotal}

InitLaunch ==
    /\ num_procs \in LaunchConfigs
    /\ budget = [i \in Cats |-> 0]
    /\ opt_backoff \in 0 .. MaxBackoff
    /\ sigchld_ign = FALSE
    /\ opt_timeout = DEFAULT_TIMEOUT
    /\ InitRest
    /\ WaitIdle
    /\ NullIdle

NextLaunch ==
    \/ DivOps \/ AllocProcs \/ AllocProcsFail \/ Validate
    \/ ShmOpen \/ ShmOpenFail \/ Ftruncate \/ FtruncateFail
    \/ Mmap \/ MmapFail
    \/ LaunchFork \/ LaunchForkFail \/ LaunchDone \/ LaunchTick

SpecLaunch == InitLaunch /\ [][NextLaunch]_vars

(* ----------------------------------------------------------------------- *)
(* The wait stressor: signals                                              *)
(* ----------------------------------------------------------------------- *)
\* The stop flag opt_do_run, its handler and inc_counter() are not part of
\* src/: the handler of SIGALRM and SIGINT clears the receiving process's
\* flag, and a call the process sleeps in returns EINTR.  A signal takes
\* effect before the receiving process's next step.
RunnerLive == rpc \in {"call_pause", "paused", "test", "notify", "exit"}

KillerLoop == {"sigstop", "sigcont", "probe", "test"}

KillerLive == kpc \in ({"init", "kill", "alarm", "exit"} \cup KillerLoop)

ParentLive == ppc \notin {"done", "exited"}

\* where the Parent goes on when the wait call at p returns
AfterWait(p) ==
    CASE p = "waitpid" -> "check1"
      [] p = "wait_k" -> "kill_r"
      [] p = "wait_r" -> "done"
      [] OTHER -> p

\* SIGALRM or SIGINT reaches the Parent: the handler clears its flag and the
\* wait call it sleeps in returns -1 with EINTR
SignalParent ==
    /\ opt_do_run' = IF ParentLive
                        THEN [opt_do_run EXCEPT !["parent"] = FALSE]
                        ELSE opt_do_run
    /\ ppc' = IF p_blocked THEN AfterWait(ppc) ELSE ppc
    /\ wait_res' = IF p_blocked THEN "eintr" ELSE wait_res
    /\ p_blocked' = FALSE
    /\ UNCHANGED ret

\* a caught signal runs the Runner's handler: the flag is cleared and
\* pause() returns
RunnerHandled(flags) == [flags EXCEPT !["runner"] = FALSE]

RunnerWoken(p) == IF p = "paused" THEN "test" ELSE p

\* the timeout, the user's interrupt or the orchestrator's SIGALRM
ExternalStopParent ==
    /\ ParentLive
    /\ SignalParent
    /\ UNCHANGED <<mainVars, runnerVars, killerVars, max_ops, counter,
                   have_waitid, waitGhostVars>>

\* a stopped process takes no signal but SIGKILL until it is continued
ExternalStopRunner ==
    /\ RunnerLive
    /\ ~r_killed
    /\ IF r_stopped
          THEN /\ r_sigpend' = TRUE
               /\ UNCHANGED <<rpc, opt_do_run>>
          ELSE /\ opt_do_run' = RunnerHandled(opt_do_run)
               /\ rpc' = RunnerWoken(rpc)
               /\ UNCHANGED r_sigpend
    /\ UNCHANGED <<mainVars, parentVars, r_stopped, r_cont, r_killed,
                   killerVars, max_ops, counter, have_waitid, waitGhostVars>>

ExternalStopKiller ==
    /\ KillerLive
    /\ ~k_killed
    /\ opt_do_run["killer"]
    /\ opt_do_run' = [opt_do_run EXCEPT !["killer"] = FALSE]
    /\ UNCHANGED <<mainVars, parentVars, runnerVars, killerVars, max_ops,
                   counter, have_waitid, waitGhostVars>>

(* ----------------------------------------------------------------------- *)
(* The wait stressor: the Parent, stress_wait()                            *)
(* ----------------------------------------------------------------------- *)
\* pid_r = spawn(args, runner, 0): the child starts with a copy of the flag
SpawnRunner ==
    /\ ppc = "spawn_r"
    /\ rpc' = "call_pause"
    /\ opt_do_run' = [opt_do_run EXCEPT !["runner"] = opt_do_run["parent"]]
    /\ ppc' = "spawn_k"
    /\ UNCHANGED <<mainVars, p_blocked, ret, wait_res, r_stopped, r_cont,
                   r_sigpend, r_killed, killerVars, max_ops, counter,
                   have_waitid, waitGhostVars>>

\* pid_r < 0: exit(EXIT_FAILURE)
SpawnRunnerFail ==
    /\ ppc = "spawn_r"
    /\ ppc' = "exited"
    /\ ret' = EXIT_FAILURE
    /\ UNCHANGED <<mainVars, p_blocked, wait_res, runnerVars, killerVars,
                   sharedVars, waitGhostVars>>

\* pid_k = spawn(args, killer, pid_r)
SpawnKiller ==
    /\ ppc = "spawn_k"
    /\ kpc' = "init"
    /\ opt_do_run' = [opt_do_run EXCEPT !["killer"] = opt_do_run["parent"]]
    /\ ppc' = "waitpid"
    /\ UNCHANGED <<mainVars, p_blocked, ret, wait_res, runnerVars, k_killed,
                   since_start, last_counter, max_ops, counter, have_waitid,
                   waitGhostVars>>

\* pid_k < 0: ret = EXIT_FAILURE; goto tidy
SpawnKillerFail ==
    /\ ppc = "spawn_k"
    /\ ret' = EXIT_FAILURE
    /\ ppc' = "kill_r"
    /\ UNCHANGED <<mainVars, p_blocked, wait_res, runnerVars, killerVars,
                   sharedVars, waitGhostVars>>

\* waitpid(pid_r, &status, 0), WCONINUED being defined by no header: it
\* returns the terminated Runner, fails with ECHILD when the Runner was
\* reaped before, and sleeps otherwise; a stopped or continued Runner does
\* not make it return
Waitpid ==
    /\ ppc = "waitpid"
    /\ IF rpc = "zombie"
          THEN /\ rpc' = "reaped"
               /\ wait_res' = "exited"
               /\ ppc' = "check1"
               /\ p_blocked' = FALSE
          ELSE IF rpc = "reaped"
          THEN /\ wait_res' = "echild"
               /\ ppc' = "check1"
               /\ UNCHANGED <<rpc, p_blocked>>
          ELSE /\ ~p_blocked
               /\ p_blocked' = TRUE
               /\ UNCHANGED <<rpc, wait_res, ppc>>
    /\ UNCHANGED <<mainVars, ret, r_stopped, r_cont, r_sigpend, r_killed,
                   killerVars, sharedVars, waitGhostVars>>

\* inc_counter(args): (*args->counter)++
inc_counter == counter + 1

\* if (!opt_do_run) break; inc_counter(args), WIFCONINUED being defined by
\* no header; then the waitid() block if the build has it
Check1 ==
    /\ ppc = "check1"
    /\ IF ~opt_do_run["parent"]
          THEN /\ ppc' = "kill_k"
               /\ UNCHANGED <<counter, frozen, inc_after>>
          ELSE /\ counter < MaxWaitCount
               /\ counter' = inc_counter
               /\ frozen' = 0
               /\ inc_after' = wait_res
               /\ ppc' = IF have_waitid THEN "waitid" ELSE "test"
    /\ UNCHANGED <<mainVars, p_blocked, ret, wait_res, runnerVars, killerVars,
                   opt_do_run, max_ops, have_waitid, stalled>>

\* waitid(P_PID, pid_r, &info, 0): options name no state to wait for, the
\* call fails with EINVAL
Waitid ==
    /\ ppc = "waitid"
    /\ wait_res' = "einval"
    /\ ppc' = "check2"
    /\ UNCHANGED <<mainVars, p_blocked, ret, runnerVars, killerVars,
                   sharedVars, waitGhostVars>>

\* if (!opt_do_run) break; inc_counter(args)
Check2 ==
    /\ ppc = "check2"
    /\ IF ~opt_do_run["parent"]
          THEN /\ ppc' = "kill_k"
               /\ UNCHANGED <<counter, frozen, inc_after>>
          ELSE /\ counter < MaxWaitCount
               /\ counter' = inc_counter
               /\ frozen' = 0
               /\ inc_after' = wait_res
               /\ ppc' = "test"
    /\ UNCHANGED <<mainVars, p_blocked, ret, wait_res, runnerVars, killerVars,
                   opt_do_run, max_ops, have_waitid, stalled>>

\* the loop condition of a process of the wait stressor:
\* opt_do_run && (!args->max_ops || *args->counter < args->max_ops)
KeepWaiting(p) == opt_do_run[p] /\ (max_ops = 0 \/ counter < max_ops)

ParentTest ==
    /\ ppc = "test"
    /\ ppc' = IF KeepWaiting("parent") THEN "waitpid" ELSE "kill_k"
    /\ UNCHANGED <<mainVars, p_blocked, ret, wait_res, runnerVars, killerVars,
                   sharedVars, waitGhostVars>>

\* (void)kill(pid_k, SIGKILL)
KillKiller ==
    /\ ppc = "kill_k"
    /\ k_killed' = (k_killed \/ KillerLive)
    /\ ppc' = "wait_k"
    /\ UNCHANGED <<mainVars, p_blocked, ret, wait_res, runnerVars, kpc,
                   since_start, last_counter, sharedVars, waitGhostVars>>

\* (void)waitpid(pid_k, &status, 0)
WaitKiller ==
    /\ ppc = "wait_k"
    /\ IF kpc = "zombie"
          THEN /\ kpc' = "reaped"
               /\ wait_res' = "exited"
               /\ ppc' = "kill_r"
               /\ p_blocked' = FALSE
          ELSE /\ ~p_blocked
               /\ p_blocked' = TRUE
               /\ UNCHANGED <<kpc, wait_res, ppc>>
    /\ UNCHANGED <<mainVars, ret, runnerVars, k_killed, since_start,
                   last_counter, sharedVars, waitGhostVars>>

\* tidy: (void)kill(pid_r, SIGKILL)
KillRunner ==
    /\ ppc = "kill_r"
    /\ r_killed' = (r_killed \/ RunnerLive)
    /\ ppc' = "wait_r"
    /\ UNCHANGED <<mainVars, p_blocked, ret, wait_res, rpc, r_stopped, r_cont,
                   r_sigpend, killerVars, sharedVars, waitGhostVars>>

\* (void)waitpid(pid_r, &status, 0); return ret
WaitRunner ==
    /\ ppc = "wait_r"
    /\ IF rpc = "zombie"
          THEN /\ rpc' = "reaped"
               /\ wait_res' = "exited"
               /\ ppc' = "done"
               /\ p_blocked' = FALSE
          ELSE IF rpc = "reaped"
          THEN /\ wait_res' = "echild"
               /\ ppc' = "done"
               /\ UNCHANGED <<rpc, p_blocked>>
          ELSE /\ ~p_blocked
               /\ p_blocked' = TRUE
               /\ UNCHANGED <<rpc, wait_res, ppc>>
    /\ UNCHANGED <<mainVars, ret, r_stopped, r_cont, r_sigpend, r_killed,
                   killerVars, sharedVars, waitGhostVars>>

(* ----------------------------------------------------------------------- *)
(* The wait stressor: the Runner, runner()                                 *)
(* ----------------------------------------------------------------------- *)
RunnerRuns == RunnerLive /\ ~r_stopped /\ ~r_killed

\* (void)pause(): the Runner sleeps until a handler has run
RunnerPause ==
    /\ RunnerRuns
    /\ rpc = "call_pause"
    /\ rpc' = "paused"
    /\ UNCHANGED <<mainVars, parentVars, r_stopped, r_cont, r_sigpend,
                   r_killed, killerVars, sharedVars, waitGhostVars>>

RunnerTest ==
    /\ RunnerRuns
    /\ rpc = "test"
    /\ rpc' = IF KeepWaiting("runner") THEN "call_pause" ELSE "notify"
    /\ UNCHANGED <<mainVars, parentVars, r_stopped, r_cont, r_sigpend,
                   r_killed, killerVars, sharedVars, waitGhostVars>>

\* kill(getppid(), SIGALRM)
RunnerNotify ==
    /\ RunnerRuns
    /\ rpc = "notify"
    /\ SignalParent
    /\ rpc' = "exit"
    /\ UNCHANGED <<mainVars, r_stopped, r_cont, r_sigpend, r_killed,
                   killerVars, max_ops, counter, have_waitid, waitGhostVars>>

\* exit(EXIT_SUCCESS)
RunnerExit ==
    /\ RunnerRuns
    /\ rpc = "exit"
    /\ rpc' = "zombie"
    /\ UNCHANGED <<mainVars, parentVars, r_stopped, r_cont, r_sigpend,
                   r_killed, killerVars, sharedVars, waitGhostVars>>

\* SIGKILL terminates the Runner, stopped or not
RunnerDie ==
    /\ RunnerLive
    /\ r_killed
    /\ rpc' = "zombie"
    /\ UNCHANGED <<mainVars, parentVars, r_stopped, r_cont, r_sigpend,
                   r_killed, killerVars, sharedVars, waitGhostVars>>

(* ----------------------------------------------------------------------- *)
(* The wait stressor: the Killer, killer()                                 *)
(* ----------------------------------------------------------------------- *)
KillerRuns == KillerLive /\ ~k_killed

\* double start = time_now(); uint64_t last_counter = *args->counter;
KillerInit ==
    /\ KillerRuns
    /\ kpc = "init"
    /\ since_start' = 0
    /\ last_counter' = counter
    /\ frozen' = 0
    /\ kpc' = "sigstop"
    /\ UNCHANGED <<mainVars, parentVars, runnerVars, k_killed, sharedVars,
                   stalled, inc_after>>

\* (void)kill(pid, SIGSTOP)
KillerStop ==
    /\ KillerRuns
    /\ kpc = "sigstop"
    /\ r_stopped' = (r_stopped \/ RunnerLive)
    /\ kpc' = "sigcont"
    /\ UNCHANGED <<mainVars, parentVars, rpc, r_cont, r_sigpend, r_killed,
                   k_killed, since_start, last_counter, sharedVars,
                   waitGhostVars>>

\* (void)kill(pid, SIGCONT): a stopped Runner is continued, and a caught
\* signal that waited for it runs its handler
KillerCont ==
    /\ KillerRuns
    /\ kpc = "sigcont"
    /\ r_stopped' = FALSE
    /\ r_cont' = (r_cont \/ (r_stopped /\ RunnerLive))
    /\ r_sigpend' = FALSE
    /\ IF r_sigpend /\ RunnerLive /\ ~r_killed
          THEN /\ opt_do_run' = RunnerHandled(opt_do_run)
               /\ rpc' = RunnerWoken(rpc)
          ELSE UNCHANGED <<opt_do_run, rpc>>
    /\ kpc' = "probe"
    /\ UNCHANGED <<mainVars, parentVars, r_killed, k_killed, since_start,
                   last_counter, max_ops, counter, have_waitid, waitGhostVars>>

\* a probe that gives up one second early
KillerProbeEarly ==
    /\ KillerRuns
    /\ kpc = "probe"
    /\ IF last_counter = counter
          THEN /\ stalled' = (since_start >= ABORT_TIMEOUT)
               /\ kpc' = IF since_start >= ABORT_TIMEOUT THEN "kill" ELSE "test"
               /\ UNCHANGED <<since_start, last_counter>>
          ELSE /\ since_start' = 0
               /\ last_counter' = counter
               /\ kpc' = "test"
               /\ UNCHANGED stalled
    /\ UNCHANGED <<mainVars, parentVars, runnerVars, k_killed, sharedVars,
                   frozen, inc_after>>

\* if (last_counter == *args->counter) {
\*         if (time_now() - start > ABORT_TIMEOUT) break;
\* } else { start = time_now(); last_counter = *args->counter; }
KillerProbe ==
    /\ KillerRuns
    /\ kpc = "probe"
    /\ IF last_counter = counter
          THEN /\ stalled' = (since_start > ABORT_TIMEOUT)
               /\ kpc' = IF since_start > ABORT_TIMEOUT THEN "kill" ELSE "test"
               /\ UNCHANGED <<since_start, last_counter>>
          ELSE /\ since_start' = 0
               /\ last_counter' = counter
               /\ kpc' = "test"
               /\ UNCHANGED stalled
    /\ UNCHANGED <<mainVars, parentVars, runnerVars, k_killed, sharedVars,
                   frozen, inc_after>>

KillerTest ==
    /\ KillerRuns
    /\ kpc = "test"
    /\ kpc' = IF KeepWaiting("killer") THEN "sigstop" ELSE "kill"
    /\ UNCHANGED <<mainVars, parentVars, runnerVars, k_killed, since_start,
                   last_counter, sharedVars, waitGhostVars>>

\* (void)kill(pid, SIGKILL)
KillerKill ==
    /\ KillerRuns
    /\ kpc = "kill"
    /\ r_killed' = (r_killed \/ RunnerLive)
    /\ kpc' = "alarm"
    /\ UNCHANGED <<mainVars, parentVars, rpc, r_stopped, r_cont, r_sigpend,
                   k_killed, since_start, last_counter, sharedVars,
                   waitGhostVars>>

\* (void)kill(getppid(), SIGALRM)
KillerAlarm ==
    /\ KillerRuns
    /\ kpc = "alarm"
    /\ SignalParent
    /\ kpc' = "exit"
    /\ UNCHANGED <<mainVars, runnerVars, k_killed, since_start, last_counter,
                   max_ops, counter, have_waitid, waitGhostVars>>

\* exit(EXIT_SUCCESS)
KillerExit ==
    /\ KillerRuns
    /\ kpc = "exit"
    /\ kpc' = "zombie"
    /\ UNCHANGED <<mainVars, parentVars, runnerVars, k_killed, since_start,
                   last_counter, sharedVars, waitGhostVars>>

\* SIGKILL terminates the Killer
KillerDie ==
    /\ KillerLive
    /\ k_killed
    /\ kpc' = "zombie"
    /\ UNCHANGED <<mainVars, parentVars, runnerVars, k_killed, since_start,
                   last_counter, sharedVars, waitGhostVars>>

\* a second passes while the Killer is in its loop; the clocks stop at the
\* first value beyond ABORT_TIMEOUT
Later(t) == IF t > ABORT_TIMEOUT THEN t ELSE t + 1

Tick ==
    /\ kpc \in KillerLoop
    /\ ~k_killed
    /\ since_start' = Later(since_start)
    /\ frozen' = Later(frozen)
    /\ UNCHANGED <<mainVars, parentVars, runnerVars, kpc, k_killed,
                   last_counter, sharedVars, stalled, inc_after>>

ParentNext ==
    \/ SpawnRunner \/ SpawnRunnerFail \/ SpawnKiller \/ SpawnKillerFail
    \/ Waitpid \/ Check1 \/ Waitid \/ Check2 \/ ParentTest
    \/ KillKiller \/ WaitKiller \/ KillRunner \/ WaitRunner

RunnerNext ==
    RunnerPause \/ RunnerTest \/ RunnerNotify \/ RunnerExit \/ RunnerDie

KillerNext ==
    \/ KillerInit \/ KillerStop \/ KillerCont \/ KillerProbe \/ KillerTest
    \/ KillerKill \/ KillerAlarm \/ KillerExit \/ KillerDie

ExternalStop == ExternalStopParent \/ ExternalStopRunner \/ ExternalStopKiller

NextWait == ParentNext \/ RunnerNext \/ KillerNext \/ Tick \/ ExternalStop

\* the wait stressor taken alone: the orchestrator does not move
MainIdle ==
    /\ num_procs = [i \in Cats |-> 0]
    /\ budget = [i \in Cats |-> 0]
    /\ dry_run = FALSE
    /\ opt_backoff = DEFAULT_BACKOFF
    /\ sigchld_ign = FALSE
    /\ opt_timeout = DEFAULT_TIMEOUT
    /\ InitRest

InitWait ==
    /\ MainIdle
    /\ max_ops \in 0 .. MaxWaitOps
    /\ have_waitid \in BOOLEAN
    /\ WaitRest
    /\ NullIdle

SpecWait == InitWait /\ [][NextWait]_vars

\* every process that can run does run, SIGKILL terminates, and time passes
FairnessWait ==
    /\ WF_vars(ParentNext)
    /\ WF_vars(RunnerNext)
    /\ WF_vars(KillerNext)
    /\ WF_vars(Tick)

FairSpecWait == InitWait /\ [][NextWait]_vars /\ FairnessWait

(* ----------------------------------------------------------------------- *)
(* Properties of the orchestrator                                          *)
(* ----------------------------------------------------------------------- *)
AllStarted == \A i \in Cats : started_procs[i] = num_procs[i]

AllReaped == \A p \in DOMAIN child : child[p].state = "reaped"

\* C1: when the reap loop has ended and main() computes the duration and
\* reports completion, every category has started as many workers as were
\* requested, N workers were spawned, wait() has returned N terminated
\* children and every spawned worker is reaped.
C1_ReapsExactlyN ==
    pc = "report" =>
        /\ AllStarted
        /\ total_procs = SumTo(num_procs, STRESS_MAX - 1)
        /\ Len(child) = total_procs
        /\ reaped = total_procs
        /\ AllReaped

C1_Witness ==
    /\ pc = "report"
    /\ total_procs > 1
    /\ reaped = total_procs

\* C2: after a fork failure every worker spawned before it that still runs
\* has a SIGALRM pending, nothing more is spawned, and the run ends with
\* exit code 1.
C2_ForkFailureExitsWithFailure ==
    failed = "fork" =>
        /\ pc \in {"out", "exited"}
        /\ \A p \in DOMAIN child : child[p].state = "running" => child[p].alarmed
        /\ pc = "exited" => exit_code = EXIT_FAILURE

\* C3: a worker exists only if the worker count was validated and the
\* shared region was created, resized and mapped; a failed validation or a
\* failed region step ends the run with exit code 1 and no child spawned.
C3_NoSpawnBeforeSetup ==
    /\ Len(child) > 0 =>
          /\ total_procs > 0
          /\ shm = "mapped"
          /\ DOMAIN counters = 0 .. (RegionSlots - 1)
          /\ failed \in {"none", "fork"}
    /\ failed \in {"no_workers", "shm_open", "ftruncate", "mmap"} =>
          /\ pc = "exited"
          /\ exit_code = EXIT_FAILURE
          /\ Len(child) = 0

C3_Witness ==
    /\ Len(child) > 0
    /\ shm = "mapped"
    /\ pc = "launch"

\* C4: once a wait() of the reap loop was interrupted while workers were
\* still running, eventually every spawned worker is reaped and main() has
\* exited with code 0.
C4_InterruptDrains ==
    interrupted ~> (pc = "exited" /\ exit_code = EXIT_SUCCESS /\ AllReaped)

C4_Witness ==
    /\ interrupted
    /\ pc = "reap"
    /\ \E p \in DOMAIN child : child[p].state = "running" /\ child[p].alarmed

\* C5: two distinct spawned workers never have the same counter slot.
C5_DistinctSlots ==
    \A p, q \in DOMAIN child : p # q => child[p].slot # child[q].slot

\* C6: in a run that is not a dry run and has no timeout, interrupt, fork
\* failure or worker failure, once every worker has stopped and is reaped,
\* every worker of a category with budget B > 0 and W > 0 workers has
\* counted exactly floor(B / W) operations in its slot, the category's
\* total is W * floor(B / W), and the exit code is 0.
C6_BudgetExact ==
    (/\ pc \in {"report", "out", "exited"}
     /\ failed = "none"
     /\ ~dry_run /\ ~signalled /\ ~wfailed /\ ~interrupted) =>
        /\ \A i \in Cats :
              (budget[i] > 0 /\ num_procs[i] > 0) =>
                  /\ \A j \in 0 .. (num_procs[i] - 1) :
                        counters[SlotOf(j, i)] = budget[i] \div num_procs[i]
                  /\ MetricsTotal(i) =
                        num_procs[i] * (budget[i] \div num_procs[i])
        /\ pc = "exited" => exit_code = EXIT_SUCCESS

\* C7: after the budget division the per-worker budget of every category is
\* 0 when it has no workers and floor(B / W) otherwise, so that
\* W * (per-worker budget) <= B.
C7_BudgetDivision ==
    pc # "div" =>
        \A i \in Cats :
            /\ num_procs[i] = 0 => opt_ops[i] = 0
            /\ num_procs[i] > 0 =>
                  /\ opt_ops[i] * num_procs[i] <= budget[i]
                  /\ budget[i] < (opt_ops[i] + 1) * num_procs[i]
            /\ num_procs[i] * opt_ops[i] <= budget[i]

C7_Witness ==
    /\ pc = "alloc"
    /\ \E i \in Cats :
          /\ num_procs[i] > 1
          /\ opt_ops[i] > 0
          /\ num_procs[i] * opt_ops[i] < budget[i]

(* ----------------------------------------------------------------------- *)
(* Properties of the wait stressor                                         *)
(* ----------------------------------------------------------------------- *)
\* C8: the counter is only ever incremented after a wait on the Runner that
\* reported a continuation of the Runner, never after one that returned
\* because the Runner terminated, the wait was interrupted or the wait
\* failed.
C8_IncOnlyAfterContinuation == inc_after \in {"none", "continued"}

\* C9: when the Killer has left its loop by the stall-abort break, the
\* counter value it read is the one it last recorded, more than
\* ABORT_TIMEOUT seconds have passed since it took start (at its start or at
\* the last change it saw), and the counter has not advanced for more than
\* ABORT_TIMEOUT seconds; so a counter that advances in every window of
\* ABORT_TIMEOUT seconds never leads to the stall-abort.
C9_StallAbortOnlyWhenFrozen ==
    (stalled /\ kpc = "kill") =>
        /\ last_counter = counter
        /\ since_start > ABORT_TIMEOUT
        /\ frozen > ABORT_TIMEOUT

C9_Witness ==
    /\ stalled
    /\ kpc = "kill"
    /\ ~k_killed
    /\ frozen > ABORT_TIMEOUT
    /\ RunnerLive

\* C10: when stress_wait() has returned in a run in which the Killer took
\* the stall-abort break, the Killer and the Runner are both reaped.
C10_StallAbortDrains ==
    (stalled /\ ppc = "done") => (kpc = "reaped" /\ rpc = "reaped")

(* ----------------------------------------------------------------------- *)
(* Launch staggering                                                       *)
(* ----------------------------------------------------------------------- *)
\* the procs entry that main() filled for the worker with pid p
SlotOfPid(p) == procs[child[p].func][child[p].j]

\* C11: a worker forked after seq other workers sleeps opt_backoff * seq
\* before its stressor, and the start time recorded for it is at least
\* time_start + opt_backoff * seq.
C11_LaunchStaggering ==
    \A p \in DOMAIN child :
        /\ child[p].delay = opt_backoff * child[p].seq
        /\ SlotOfPid(p).start >= opt_backoff * child[p].seq

(* ----------------------------------------------------------------------- *)
(* Dry run                                                                 *)
(* ----------------------------------------------------------------------- *)
\* C12: in a dry run every counter of the mapped region is zero, from the
\* moment the region is mapped to the end of the run, for every worker
\* count and every budget.
C12_DryRunCountersZero ==
    (dry_run /\ shm = "mapped") => \A s \in DOMAIN counters : counters[s] = 0

C12_Witness ==
    /\ dry_run
    /\ pc = "exited"
    /\ failed = "none"
    /\ total_procs > 1
    /\ reaped = total_procs
    /\ \E i \in Cats : num_procs[i] > 0 /\ budget[i] > 0

(* ----------------------------------------------------------------------- *)
(* stress_null() of stress-null.c: the generic worker loop                 *)
(* ----------------------------------------------------------------------- *)
\* The stop flag opt_do_run, its handler and inc_counter() are not part of
\* the sources; they are modelled as the specification describes them.
MaxNullOps == 2
MaxNullCount == 3
MaxNullWrites == 4

\* what write(fd, buffer, sizeof(buffer)) can return: the size written, -1
\* with errno set, or 0 with errno left as it was
WriteResults ==
    {[ret |-> 1, errno |-> "none"]}
    \cup {[ret |-> -1, errno |-> e] : e \in {"EAGAIN", "EINTR", "EIO"}}
    \cup {[ret |-> 0, errno |-> e] : e \in {"none", "EAGAIN", "EINTR", "EIO"}}

\* open("/dev/null", O_WRONLY) succeeded: the do-while loop is entered
NullOpen ==
    /\ npc = "open"
    /\ npc' = "write"
    /\ n_run0' = n_do_run
    /\ n_opened' = TRUE
    /\ UNCHANGED <<n_do_run, n_max_ops, n_counter, n_res, n_ret, n_writes,
                   n_retried, n_closes, mainVarsNoNull, waitVars>>

\* open() failed: pr_fail_err, return EXIT_FAILURE
NullOpenFail ==
    /\ npc = "open"
    /\ npc' = "done"
    /\ n_ret' = EXIT_FAILURE
    /\ UNCHANGED <<n_do_run, n_max_ops, n_counter, n_res, n_run0, n_writes,
                   n_retried, fdVars, mainVarsNoNull, waitVars>>

\* ret = write(fd, buffer, sizeof(buffer)): the first statement of the
\* loop body
NullWrite ==
    /\ npc = "write"
    /\ \E r \in WriteResults :
          /\ r.ret > 0 => n_counter < MaxNullCount
          /\ n_res' = r
    /\ n_writes' = IF n_writes < MaxNullWrites THEN n_writes + 1 ELSE n_writes
    /\ npc' = "check"
    /\ UNCHANGED <<n_do_run, n_max_ops, n_counter, n_ret, n_run0, n_retried,
                   fdVars, mainVarsNoNull, waitVars>>

\* a loop body that counts a write that failed with EAGAIN or EINTR
NullCheckCountsRetry ==
    /\ npc = "check"
    /\ IF n_res.ret <= 0 /\ n_res.errno \notin {"EAGAIN", "EINTR", "none"}
          THEN /\ npc' = "done"
               /\ n_ret' = EXIT_FAILURE
               /\ n_closes' = n_closes + 1
               /\ UNCHANGED <<n_counter, n_retried>>
          ELSE /\ npc' = "test"
               /\ n_counter' = IF n_res.ret > 0 \/ n_res.errno # "none"
                                  THEN n_counter + 1 ELSE n_counter
               /\ n_retried' = (n_retried \/ (n_res.ret <= 0 /\ n_res.errno # "none"))
               /\ UNCHANGED <<n_ret, n_closes>>
    /\ UNCHANGED <<n_do_run, n_max_ops, n_res, n_run0, n_writes, n_opened,
                   mainVarsNoNull, waitVars>>

\* a loop body that returns EXIT_FAILURE without close(fd)
NullCheckNoClose ==
    /\ npc = "check"
    /\ IF n_res.ret <= 0
          THEN IF n_res.errno \in {"EAGAIN", "EINTR"}
                  THEN /\ npc' = "test"
                       /\ n_retried' = TRUE
                       /\ UNCHANGED <<n_counter, n_ret>>
                  ELSE IF n_res.errno # "none"
                          THEN /\ npc' = "done"
                               /\ n_ret' = EXIT_FAILURE
                               /\ UNCHANGED <<n_counter, n_retried>>
                          ELSE /\ npc' = "test"
                               /\ UNCHANGED <<n_counter, n_ret, n_retried>>
          ELSE /\ n_counter' = n_counter + 1
               /\ npc' = "test"
               /\ UNCHANGED <<n_ret, n_retried>>
    /\ UNCHANGED <<n_do_run, n_max_ops, n_res, n_run0, n_writes, fdVars,
                   mainVarsNoNull, waitVars>>

\* if (ret <= 0) { EAGAIN or EINTR: continue; errno: pr_fail_err,
\* close(fd), return EXIT_FAILURE; continue; } inc_counter(args); a continue
\* of a do-while goes to the loop condition
NullCheck ==
    /\ npc = "check"
    /\ IF n_res.ret <= 0
          THEN IF n_res.errno \in {"EAGAIN", "EINTR"}
                  THEN /\ npc' = "test"
                       /\ n_retried' = TRUE
                       /\ UNCHANGED <<n_counter, n_ret, n_closes>>
                  ELSE IF n_res.errno # "none"
                          THEN /\ npc' = "done"
                               /\ n_ret' = EXIT_FAILURE
                               /\ n_closes' = n_closes + 1
                               /\ UNCHANGED <<n_counter, n_retried>>
                          ELSE /\ npc' = "test"
                               /\ UNCHANGED <<n_counter, n_ret, n_retried,
                                              n_closes>>
          ELSE /\ n_counter' = n_counter + 1
               /\ npc' = "test"
               /\ UNCHANGED <<n_ret, n_retried, n_closes>>
    /\ UNCHANGED <<n_do_run, n_max_ops, n_res, n_run0, n_writes, n_opened,
                   mainVarsNoNull, waitVars>>

\* while (opt_do_run && (!args->max_ops || *args->counter < args->max_ops));
\* close(fd); return EXIT_SUCCESS
NullKeepGoing == n_do_run /\ (n_max_ops = 0 \/ n_counter < n_max_ops)

NullTest ==
    /\ npc = "test"
    /\ IF NullKeepGoing
          THEN npc' = "write" /\ UNCHANGED <<n_ret, n_closes>>
          ELSE /\ npc' = "done"
               /\ n_closes' = n_closes + 1
               /\ n_ret' = EXIT_SUCCESS
    /\ UNCHANGED <<n_do_run, n_max_ops, n_counter, n_res, n_run0, n_writes,
                   n_retried, n_opened, mainVarsNoNull, waitVars>>

\* a stop signal reaches the worker: its handler clears opt_do_run
NullStop ==
    /\ npc \in {"open", "write", "check", "test"}
    /\ n_do_run
    /\ n_do_run' = FALSE
    /\ UNCHANGED <<npc, n_max_ops, n_counter, n_res, n_ret, n_run0, n_writes,
                   n_retried, fdVars, mainVarsNoNull, waitVars>>

NextNull ==
    \/ NullOpen \/ NullOpenFail \/ NullWrite \/ NullCheck \/ NullTest
    \/ NullStop

\* stress_null() is called with any budget; nothing else runs
InitNull ==
    /\ MainIdle
    /\ WaitIdle
    /\ npc = "open"
    /\ n_do_run = TRUE
    /\ n_max_ops \in 0 .. MaxNullOps
    /\ n_run0 = TRUE
    /\ NullRest

SpecNull == InitNull /\ [][NextNull]_vars

\* C13: a write that fails with EAGAIN or EINTR leaves the counter as it
\* was and sends the loop on to its condition, not to a failure; a write
\* that succeeds advances the counter by one; and the counter changes in no
\* other step.
C13_NullCounting ==
    [][/\ (npc = "check" /\ npc' # "check" /\ n_res.ret <= 0
              /\ n_res.errno \in {"EAGAIN", "EINTR"})
           => (n_counter' = n_counter /\ npc' = "test" /\ n_ret' = n_ret)
       /\ (npc = "check" /\ npc' # "check" /\ n_res.ret > 0)
           => n_counter' = n_counter + 1
       /\ (n_counter' # n_counter)
           => (npc = "check" /\ n_res.ret > 0 /\ n_counter' = n_counter + 1)
      ]_vars

C13_Witness ==
    /\ npc = "done"
    /\ n_ret = EXIT_SUCCESS
    /\ n_retried
    /\ n_counter = 2
    /\ n_max_ops = 2

(* ----------------------------------------------------------------------- *)
(* A worker that fails                                                     *)
(* ----------------------------------------------------------------------- *)
\* C14: when a worker has exited with EXIT_FAILURE, and no wait() was
\* interrupted and no fork() failed, no worker has a SIGALRM of main()
\* pending; the reap loop is left only with every worker reaped; and main()
\* exits with 0.
C14_WorkerFailureIgnored ==
    wfailed =>
        /\ (~interrupted /\ failed = "none") =>
              \A p \in DOMAIN child : ~child[p].alarmed
        /\ (failed = "none" /\ pc \in {"report", "out", "exited"}) =>
              (reaped = total_procs /\ AllReaped)
        /\ pc = "exited" => exit_code = EXIT_SUCCESS

C14_Witness ==
    /\ wfailed
    /\ ~interrupted
    /\ failed = "none"
    /\ pc = "exited"
    /\ total_procs > 1
    /\ \E p \in DOMAIN child : child[p].func \notin {STRESS_VM, STRESS_HDD}

(* ----------------------------------------------------------------------- *)
(* Round-robin launch                                                      *)
(* ----------------------------------------------------------------------- *)
\* C15: at every point of the launch, no category has more workers started
\* than were requested, and any two categories that are still short of
\* their requested count have started numbers of workers that differ by at
\* most one.
C15_RoundRobin ==
    /\ \A i \in Cats : started_procs[i] <= num_procs[i]
    /\ \A i, k \in Cats :
          (started_procs[i] < num_procs[i] /\ started_procs[k] < num_procs[k])
              => (started_procs[i] - started_procs[k]) \in {-1, 0, 1}

C15_Witness ==
    /\ pc = "launch"
    /\ \E i, k \in Cats :
          /\ i < k
          /\ started_procs[i] = 2
          /\ started_procs[k] = 1
          /\ started_procs[i] < num_procs[i]
          /\ started_procs[k] < num_procs[k]

(* ----------------------------------------------------------------------- *)
(* A wait() that fails                                                     *)
(* ----------------------------------------------------------------------- *)
\* C16: the reap loop terminates in every case: whenever main() is in the
\* reap loop it leaves it later, also when wait() fails because no child
\* remains.
C16_ReapLoopTerminates == (pc = "reap") ~> (pc # "reap")

(* ----------------------------------------------------------------------- *)
(* The workers' own timeout                                                *)
(* ----------------------------------------------------------------------- *)
\* C17: every worker that runs terminates later, whatever its stressor does
\* and whatever its budget is, because its alarm expires; and the reap loop
\* is left later.
C17_TimeoutEndsRun ==
    /\ \A p \in Pids : Running(p) ~> ~Running(p)
    /\ (pc = "reap") ~> (pc # "reap")

(* ----------------------------------------------------------------------- *)
(* Draining                                                                *)
(* ----------------------------------------------------------------------- *)
\* C18: when stress_wait() has returned, the Runner is reaped, and the
\* Killer, if it was spawned, is reaped; while the Runner has not been sent
\* its SIGKILL by the drain, a spawned Killer that the drain has dealt with
\* is reaped.
C18_DrainReapsAll ==
    /\ ppc = "done" => (rpc = "reaped" /\ kpc \in {"none", "reaped"})
    /\ ppc \in {"kill_r", "wait_r", "done"} => kpc \in {"none", "reaped"}

\* C19: a failed spawn is reported as a failure and the monitoring loop is
\* not entered: when the Runner's spawn failed the stressor exits with
\* EXIT_FAILURE and there is no sub-process; when the Killer's spawn failed
\* stress_wait() returns EXIT_FAILURE with the Runner reaped; and
\* stress_wait() returns EXIT_SUCCESS only if both were spawned.
C19_SpawnFailureReported ==
    /\ ppc = "exited" => (ret = EXIT_FAILURE /\ rpc = "none" /\ kpc = "none")
    /\ kpc = "none" =>
          ppc \in {"spawn_r", "spawn_k", "kill_r", "wait_r", "done", "exited"}
    /\ (ppc = "done" /\ kpc = "none") => (ret = EXIT_FAILURE /\ rpc = "reaped")
    /\ (ppc = "done" /\ ret = EXIT_SUCCESS) => (rpc # "none" /\ kpc # "none")

\* C20: a worker whose stop flag is already cleared when its loop is
\* entered makes no write and leaves its counter at 0; and a worker with a
\* budget never counts past it.
C20_NoStepWhenStopped ==
    /\ (npc \in {"write", "check", "test", "done"} /\ ~n_run0) =>
          (n_writes = 0 /\ n_counter = 0)
    /\ n_max_ops > 0 => n_counter <= n_max_ops

(* ----------------------------------------------------------------------- *)
(* stress_null(): failures and the descriptor                              *)
(* ----------------------------------------------------------------------- *)
\* C21: a write that failed with an errno other than EAGAIN and EINTR ends
\* stress_null() with EXIT_FAILURE; while stress_null() runs the descriptor
\* is not closed, and when it has returned the descriptor, if it was
\* opened, was closed exactly once; when open() failed stress_null()
\* returns EXIT_FAILURE with no write made and nothing closed.
C21_NullFailureAndClose ==
    /\ (n_res.ret <= 0 /\ n_res.errno = "EIO") =>
          /\ npc \in {"check", "done"}
          /\ npc = "done" => n_ret = EXIT_FAILURE
    /\ npc \in {"open", "write", "check", "test"} => n_closes = 0
    /\ (npc = "done" /\ n_opened) => n_closes = 1
    /\ (npc = "done" /\ ~n_opened) =>
          (n_ret = EXIT_FAILURE /\ n_writes = 0 /\ n_counter = 0 /\ n_closes = 0)

C21_Witness ==
    /\ npc = "done"
    /\ n_opened
    /\ n_ret = EXIT_FAILURE
    /\ n_res.ret = -1
    /\ n_res.errno = "EIO"
    /\ n_counter > 0
    /\ n_closes = 1

(* ----------------------------------------------------------------------- *)
(* Counter slots and the region                                            *)
(* ----------------------------------------------------------------------- *)
\* C22: once the region is mapped, the slot index (j * max) + i of every
\* category i and every worker index j below the category's requested
\* count is less than STRESS_MAX * max, the number of slots of the region;
\* so is the slot of every worker that was started.
C22_SlotsInsideRegion ==
    shm = "mapped" =>
        /\ \A i \in Cats : \A j \in 0 .. (num_procs[i] - 1) :
              SlotOf(j, i) < RegionSlots
        /\ \A p \in DOMAIN child : child[p].slot < RegionSlots

(* ----------------------------------------------------------------------- *)
(* The wait stressor's budget                                              *)
(* ----------------------------------------------------------------------- *)
\* C23: with a budget max_ops > 0 the counter of the wait stressor is never
\* above max_ops, at any point of stress_wait() and when it has returned.
C23_CounterWithinBudget == max_ops > 0 => counter <= max_ops
====
